---- MODULE Spec2Model ----
(***************************************************************************)
(* The tree mirror walker (processMenuItems) and the download engine       *)
(* (downloadFile) of main.js, over a small file system.                    *)
(*                                                                         *)
(* Strings the code takes apart (titles, hrefs) are sequences of           *)
(* one-character strings; a path is the sequence of its segments, relative *)
(* to the working directory, kept in the normal form node:path's join      *)
(* returns (<<>> is ".", leading ".." segments climb out of it).           *)
(***************************************************************************)
EXTENDS Integers, Sequences, FiniteSets, TLC

\* Largest number of MenuNodes in the menu tree handed to the walker.
MaxNodes == 3
\* The same, for the runs over an output root that already holds files.
MaxRerunNodes == 2

------------------------------------------------------------------------------
(* Text helpers *)

RECURSIVE Str(_)
\* The JavaScript string whose characters are the elements of cs.
Str(cs) == IF cs = <<>> THEN "" ELSE Head(cs) \o Str(Tail(cs))

\* s.startsWith(lit, i): the characters of lit stand in s right after its
\* first i characters.
HasLit(s, i, lit) ==
    /\ i + Len(lit) <= Len(s)
    /\ \A k \in 1..Len(lit) : s[i + k] = lit[k]

Lower == {"a","b","c","d","e","f","g","h","i","j","k","l","m",
          "n","o","p","q","r","s","t","u","v","w","x","y","z"}
Upper == {"A","B","C","D","E","F","G","H","I","J","K","L","M",
          "N","O","P","Q","R","S","T","U","V","W","X","Y","Z"}
Digit == {"0","1","2","3","4","5","6","7","8","9"}

------------------------------------------------------------------------------
(* sanitizeFilename, main.js 17-25 *)

ForbiddenChars == {"<", ">", ":", "\"", "/", "\\", "|", "?", "*"}
Whitespace == {" ", "\t", "\n", "\r"}
Untitled == <<"u","n","t","i","t","l","e","d">>
UntitledFolder ==
    <<"U","n","t","i","t","l","e","d","_","F","o","l","d","e","r">>

\* name.replace(/[<>:"/\\|?*]/g, "_")
ReplaceForbidden(cs) ==
    [i \in 1..Len(cs) |-> IF cs[i] \in ForbiddenChars THEN "_" ELSE cs[i]]

RECURSIVE TrimStart(_)
TrimStart(cs) ==
    IF cs # <<>> /\ Head(cs) \in Whitespace THEN TrimStart(Tail(cs)) ELSE cs

RECURSIVE TrimEnd(_)
TrimEnd(cs) ==
    IF cs # <<>> /\ cs[Len(cs)] \in Whitespace
    THEN TrimEnd(SubSeq(cs, 1, Len(cs) - 1))
    ELSE cs

\* String.prototype.trim
Trim(cs) == TrimEnd(TrimStart(cs))

RECURSIVE CollapseDoubleSpaces(_)
\* saneName.replaceAll("  ", " "): one left-to-right pass over
\* non-overlapping matches.
CollapseDoubleSpaces(cs) ==
    IF Len(cs) >= 2 /\ cs[1] = " " /\ cs[2] = " "
    THEN <<" ">> \o CollapseDoubleSpaces(SubSeq(cs, 3, Len(cs)))
    ELSE IF cs = <<>> THEN <<>>
    ELSE <<Head(cs)>> \o CollapseDoubleSpaces(Tail(cs))

sanitizeFilename(name) ==
    IF name = <<>> THEN Untitled
    ELSE LET saneName == CollapseDoubleSpaces(Trim(ReplaceForbidden(name)))
         IN  IF saneName = <<>> THEN Untitled ELSE saneName

------------------------------------------------------------------------------
(* Document reference -> source URL, main.js 70-76 *)

DotHtml == <<".", "h", "t", "m", "l">>
LocaleLen == Len(<<"-", "p", "l", "-", "P", "L">>)

\* (?:-[a-z]{2}-[A-Z]{2}) right after the first i characters of s.
IsLocaleAt(s, i) ==
    /\ i + LocaleLen <= Len(s)
    /\ s[i + 1] = "-" /\ s[i + 2] \in Lower /\ s[i + 3] \in Lower
    /\ s[i + 4] = "-" /\ s[i + 5] \in Upper /\ s[i + 6] \in Upper

\* (?:-[a-z]{2}-[A-Z]{2})?\.html right after the first i characters of s.
TailMatchesAt(s, i) ==
    \/ HasLit(s, i, DotHtml)
    \/ IsLocaleAt(s, i) /\ HasLit(s, i + LocaleLen, DotHtml)

NoMatch == <<"<null>">>

\* href.match(/^(.*?)(?:-[a-z]{2}-[A-Z]{2})?\.html/): the lazy group takes the
\* shortest prefix after which the rest of the pattern matches.  The value is
\* capture group 1, or NoMatch.
pdfNameMatch(href) ==
    LET starts == {i \in 0..Len(href) : TailMatchesAt(href, i)}
    IN  IF starts = {} THEN NoMatch
        ELSE SubSeq(href, 1, CHOOSE i \in starts : \A j \in starts : i <= j)

\* if (pdfNameMatch && pdfNameMatch[1])
HasPdfName(href) ==
    LET match == pdfNameMatch(href) IN match # NoMatch /\ match # <<>>

Unreserved == Lower \cup Upper \cup Digit \cup
              {"-", "_", ".", "!", "~", "*", "'", "(", ")"}

\* The UTF-8 percent escapes of the escaped ASCII characters an href of the
\* model can hold.
PercentEscape(c) ==
    CASE c = " " -> "%20"
      [] c = "/" -> "%2F"
      [] c = "#" -> "%23"
      [] c = "?" -> "%3F"
      [] c = "%" -> "%25"

RECURSIVE encodeURIComponent(_)
encodeURIComponent(cs) ==
    IF cs = <<>> THEN ""
    ELSE (IF Head(cs) \in Unreserved THEN Head(cs) ELSE PercentEscape(Head(cs)))
         \o encodeURIComponent(Tail(cs))

PdfDocumentBaseUrl ==
    "https://ais.pansa.pl/eAIPVFR/2025-01-01/AMDT/documents/PDF/"

\* new URL(`${encodeURIComponent(pdfBaseName)}.pdf`, pdfDocBaseUrl).href
pdfUrl(href) == PdfDocumentBaseUrl \o encodeURIComponent(pdfNameMatch(href)) \o ".pdf"

------------------------------------------------------------------------------
(* Paths *)

\* join(OUTPUT_BASE_DIR, `${typeKey}_${dateForUrlPath}`), main.js 312-313
OutputRoot == <<"AIP", "VFR_2025-01-01">>

Front(p) == SubSeq(p, 1, Len(p) - 1)

\* node:path join(currentFsPath, segment) for a segment without separators:
\* the result is normalised, so "." is dropped and ".." removes the last
\* segment (or climbs, when there is none left to remove).
join(p, segment) ==
    IF segment = "." THEN p
    ELSE IF segment = ".."
         THEN IF p = <<>> \/ p[Len(p)] = ".." THEN Append(p, "..") ELSE Front(p)
    ELSE Append(p, segment)

\* The text of the last segment of the string join returned ("." for <<>>).
LastSegment(p) == IF p = <<>> THEN "." ELSE p[Len(p)]

\* The file named by the string `${itemPath}/${sanitizedItemTitle}.pdf`.
BranchPdf(p, title) == Append(p, title \o ".pdf")

\* The file named by the string `${itemPath}.pdf`.
LeafPdf(p) == Append(Front(p), LastSegment(p) \o ".pdf")

Prefixes(p) == {SubSeq(p, 1, k) : k \in 1..Len(p)}

IsUnder(root, p) == Len(p) >= Len(root) /\ SubSeq(p, 1, Len(root)) = root

------------------------------------------------------------------------------
(* The menu tree and the state of a mirror run *)

VARIABLES
    menu,         \* the MenuNode tree: node id -> [title, href, parent]
    dirs,         \* the directories that exist, as paths
    files,        \* the regular files that exist: path -> content
    stack,        \* the active processMenuItems calls: [items, idx, path]
    status,       \* "idle", "loop" (top of the for loop), "download", "done"
    call,         \* the arguments of the running downloadFile call
    run,          \* "first" or "rerun"
    calls,        \* history: the downloadFile calls of this run, as returned
    visited,      \* history: the nodes whose loop iteration began in this run
    mkdirFailed,  \* history: the nodes whose mkdir threw in this run
    created,      \* history: the directories the program created
    written,      \* history: the paths Bun.write wrote
    answers,      \* history: source URL -> the answers fetch gave for it
    firstRun      \* history: what the first run left behind

vars == <<menu, dirs, files, stack, status, call, run, calls, visited,
          mkdirFailed, created, written, answers, firstRun>>

\* The (title, href) pairs the menu's nodes are drawn from.  The first two
\* titles sanitise to the same label, "A_ B"; the last one is the name of the
\* document of a leaf with that label.
TitleSlash == <<"A", "/", " ", " ", "B">>
TitleQuery == <<" ", "A", "?", " ", "B">>
TitleDotDot == <<".", ".">>
TitlePdf == <<"A", "_", " ", "B", ".", "p", "d", "f">>
HrefLocale == <<"x", "-", "p", "l", "-", "P", "L", ".", "h", "t", "m", "l">>
HrefPlain == <<"y", " ", "1", ".", "h", "t", "m", "l">>
HrefPdf == <<"x", ".", "p", "d", "f">>

NodeKinds ==
    { [title |-> TitleSlash,  href |-> HrefLocale],
      [title |-> TitleQuery,  href |-> HrefPlain],
      [title |-> TitleDotDot, href |-> HrefLocale],
      [title |-> <<>>,        href |-> <<>>],
      [title |-> TitlePdf,    href |-> HrefPdf] }

\* Node ids are given in pre-order: every node between a node and its parent
\* lies in the parent's subtree.  Parent 0 is the top-level sequence.
IsForest(par) ==
    \A i \in DOMAIN par :
        /\ par[i] < i
        /\ \A j \in (par[i] + 1)..(i - 1) : par[j] >= par[i]

MenusUpTo(size) ==
    UNION { { [i \in 1..n |-> [title |-> kind[i].title, href |-> kind[i].href,
                                 parent |-> par[i]]] :
                kind \in [1..n -> NodeKinds],
                par \in {q \in [1..n -> 0..(n - 1)] : IsForest(q)} } :
            n \in 1..size }

Nodes == DOMAIN menu

RECURSIVE Ascending(_)
Ascending(S) ==
    IF S = {} THEN <<>>
    ELSE LET m == CHOOSE x \in S : \A y \in S : x <= y
         IN  <<m>> \o Ascending(S \ {m})

\* item.children, in the order of the source sequence (0: the menu itself).
Children(n) == Ascending({j \in Nodes : menu[j].parent = n})

RECURSIVE Descendants(_)
Descendants(n) ==
    LET kids == {j \in Nodes : menu[j].parent = n}
    IN  kids \cup UNION {Descendants(k) : k \in kids}

\* const itemTitle = item.title || "Untitled_Folder"
itemTitle(n) == IF menu[n].title = <<>> THEN UntitledFolder ELSE menu[n].title

\* const sanitizedItemTitle = sanitizeFilename(itemTitle)
sanitizedItemTitle(n) == Str(sanitizeFilename(itemTitle(n)))

\* Variant of hasDuplicateInSubtree: the children's hrefs are compared with
\* the node's title instead of its href.
hasDuplicateByTitle(n) ==
    LET children == Children(n)
    IN  \E i \in 1..Len(children) :
            /\ menu[children[i]].href # <<>>
            /\ menu[children[i]].href = menu[n].title

\* main.js 78-84: a direct child carries the same href.
hasDuplicateInSubtree(n) ==
    LET children == Children(n)
    IN  \E i \in 1..Len(children) :
            /\ menu[children[i]].href # <<>>
            /\ menu[children[i]].href = menu[n].href

\* Variant of pdfTargetPath: the document is always put beside the
\* directory.
pdfTargetPathAlwaysBeside(n, itemPath) == LeafPdf(itemPath)

\* main.js 86
pdfTargetPath(n, itemPath) ==
    IF Len(Children(n)) > 0
    THEN BranchPdf(itemPath, sanitizedItemTitle(n))
    ELSE LeafPdf(itemPath)

\* main.js 68-71, 88: the walker calls downloadFile for this node.
CallsDownload(n) ==
    /\ menu[n].href # <<>>
    /\ HasPdfName(menu[n].href)
    /\ ~hasDuplicateInSubtree(n)

------------------------------------------------------------------------------
(* The file system *)

NoFiles == [p \in {} |-> ""]
ZeroBytes == ""

\* The working directory and its ancestors exist without being recorded.
DirExists(p) == p \in dirs \/ \A k \in 1..Len(p) : p[k] = ".."

\* Variant of FileExists: the test is true for a directory, not for a file.
FileExistsAsDirectory(p) == DirExists(p)

\* Variant of FileExists: an empty file counts as missing.
FileExistsNonEmpty(p) == p \in DOMAIN files /\ files[p] # ZeroBytes

\* await Bun.file(targetPath).exists(): true for a regular file only.
FileExists(p) == p \in DOMAIN files

\* mkdir(path, { recursive: true }) throws when a regular file stands at the
\* path or at one of its ancestors.
MkdirBlocked(p) == \E q \in Prefixes(p) : q \in DOMAIN files

\* Bun.write(path, response) creates the missing parent directories; it
\* throws when that fails or when the path is a directory.
CanWrite(p) == ~MkdirBlocked(Front(p)) /\ ~DirExists(p)

NewDirs(p) == {q \in Prefixes(p) : ~DirExists(q)}

------------------------------------------------------------------------------
(* Control flow of processMenuItems, main.js 55-102 *)

Top == stack[Len(stack)]
Cur == Top.items[Top.idx]

\* const itemPath = join(currentFsPath, sanitizedItemTitle)
itemPath == join(Top.path, sanitizedItemTitle(Cur))

RECURSIVE NextIteration(_)
\* The for loop moves to its next item; a call whose items are exhausted
\* returns to the loop of its caller.
NextIteration(stk) ==
    IF stk = <<>> THEN <<>>
    ELSE LET top == stk[Len(stk)]
         IN  IF top.idx < Len(top.items)
             THEN [stk EXCEPT ![Len(stk)].idx = top.idx + 1]
             ELSE NextIteration(Front(stk))

\* Variant of MkdirFailedFlow: the catch returns from the call instead of
\* continuing its loop.
MkdirFailedReturns(stk) == NextIteration(Front(stk))

\* main.js 63-66: the catch of mkdir logs and continues.
MkdirFailedFlow(stk) == NextIteration(stk)

\* Variant of Recurse: the recursive call is given currentFsPath instead of
\* itemPath.
RecurseKeepingPath(stk, n, path) ==
    IF Len(Children(n)) > 0
    THEN Append(stk, [items |-> Children(n), idx |-> 1,
                      path |-> stk[Len(stk)].path])
    ELSE NextIteration(stk)

\* main.js 94-101: recurse into the children, if any.
Recurse(stk, n, path) ==
    IF Len(Children(n)) > 0
    THEN Append(stk, [items |-> Children(n), idx |-> 1, path |-> path])
    ELSE NextIteration(stk)

\* Variant of AfterDownload: a false result makes the walker return from the
\* current call.
AfterDownloadReturnsOnFailure(stk, n, path, result) ==
    IF result
    THEN IF Len(Children(n)) > 0
         THEN Append(stk, [items |-> Children(n), idx |-> 1, path |-> path])
         ELSE NextIteration(stk)
    ELSE NextIteration(Front(stk))

\* main.js 89: the result of downloadFile is not looked at.
AfterDownload(stk, n, path, result) == Recurse(stk, n, path)

StatusOf(stk) == IF stk = <<>> THEN "done" ELSE "loop"

NoCall == [node |-> 0, url |-> "", target |-> <<>>]
NoFirstRun == [files |-> NoFiles, dirs |-> {}, dirFailed |-> FALSE,
               downloadFailed |-> FALSE, fetches |-> 0]

\* The menu's own sequence, walked from the output root (main.js 329-334).
TopCall == <<[items |-> Children(0), idx |-> 1, path |-> OutputRoot]>>

------------------------------------------------------------------------------
(* Initial state *)

\* Where the walker will put node n's directory and document: the sanitised
\* titles joined from the output root down to n.
RECURSIVE ItemPathOf(_)
ItemPathOf(n) ==
    join(IF menu[n].parent = 0 THEN OutputRoot ELSE ItemPathOf(menu[n].parent),
         sanitizedItemTitle(n))

\* The files somebody put at a document's destination before the run: none, or
\* one zero-byte file.
PrecreatedFiles ==
    {NoFiles} \cup
    { [p \in {pdfTargetPath(n, ItemPathOf(n))} |-> ZeroBytes] :
        n \in {k \in Nodes : CallsDownload(k)} }

InitOver(menus, precreated) ==
    /\ menu \in menus
    /\ dirs = Prefixes(OutputRoot)
    /\ files \in (IF precreated THEN PrecreatedFiles ELSE {NoFiles})
    /\ stack = <<>>
    /\ status = "idle"
    /\ call = NoCall
    /\ run = "first"
    /\ calls = <<>>
    /\ visited = {}
    /\ mkdirFailed = {}
    /\ created = {}
    /\ written = {}
    /\ answers = [u \in {} |-> {}]
    /\ firstRun = NoFirstRun

\* main.js 312-315: a fresh output root, holding nothing yet.
Init == InitOver(MenusUpTo(MaxNodes), FALSE)

------------------------------------------------------------------------------
(* processMenuItems *)

\* main.js 329-334: main calls the walker on the menu.
Start ==
    /\ status = "idle"
    /\ stack' = TopCall
    /\ status' = "loop"
    /\ UNCHANGED <<menu, dirs, files, call, run, calls, visited, mkdirFailed,
                   created, written, answers, firstRun>>

\* main.js 60-66: mkdir(currentFsPath) throws (a file in the way, or any
\* fault of the environment); the node is skipped with its subtree.
MkdirFails ==
    /\ status = "loop"
    /\ visited' = visited \cup {Cur}
    /\ mkdirFailed' = mkdirFailed \cup {Cur}
    /\ stack' = MkdirFailedFlow(stack)
    /\ status' = StatusOf(stack')
    /\ UNCHANGED <<menu, dirs, files, call, run, calls, created, written,
                   answers, firstRun>>

\* main.js 55-101 for a node the walker downloads nothing for: no href, an
\* href the pattern does not match, or a child with the same href.
VisitWithoutDownload ==
    /\ status = "loop"
    /\ ~MkdirBlocked(Top.path)
    /\ ~CallsDownload(Cur)
    /\ visited' = visited \cup {Cur}
    /\ dirs' = dirs \cup Prefixes(Top.path)
    /\ created' = created \cup NewDirs(Top.path)
    /\ stack' = Recurse(stack, Cur, itemPath)
    /\ status' = StatusOf(stack')
    /\ UNCHANGED <<menu, files, call, run, calls, mkdirFailed, written,
                   answers, firstRun>>

\* main.js 55-89 up to the call of downloadFile(pdfUrl, pdfTargetPath).
VisitCallsDownload ==
    /\ status = "loop"
    /\ ~MkdirBlocked(Top.path)
    /\ CallsDownload(Cur)
    /\ visited' = visited \cup {Cur}
    /\ dirs' = dirs \cup Prefixes(Top.path)
    /\ created' = created \cup NewDirs(Top.path)
    /\ call' = [node |-> Cur, url |-> pdfUrl(menu[Cur].href),
                target |-> pdfTargetPath(Cur, itemPath)]
    /\ status' = "download"
    /\ UNCHANGED <<menu, files, stack, run, calls, mkdirFailed, written,
                   answers, firstRun>>

------------------------------------------------------------------------------
(* downloadFile, main.js 27-47, and the walker's lines 94-101 after it *)

Returned(existed, response, result) ==
    [node |-> call.node, url |-> call.url, target |-> call.target,
     existed |-> existed, response |-> response,
     fetched |-> response # "none", result |-> result]

Answered(url, response) ==
    [u \in DOMAIN answers \cup {url} |->
        (IF u \in DOMAIN answers THEN answers[u] ELSE {})
        \cup (IF u = url THEN {response} ELSE {})]

\* Variant of WritesFile: response.ok is not tested, so the body of an error
\* response is stored too.
WritesAnyResponse(response, target) == response # "fault" /\ CanWrite(target)

\* Bun.write(targetPath, response) runs only for a response that is ok, and
\* only then is the file there.
WritesFile(response, target) == response = "ok" /\ CanWrite(target)

Return(existed, response, result) ==
    /\ calls' = Append(calls, Returned(existed, response, result))
    /\ stack' = AfterDownload(stack, call.node, itemPath, result)
    /\ status' = StatusOf(stack')
    /\ call' = NoCall
    /\ UNCHANGED <<menu, run, visited, mkdirFailed, firstRun>>

\* main.js 28-31
DownloadSkipsExisting ==
    /\ status = "download"
    /\ FileExists(call.target)
    /\ Return(call.target \in DOMAIN files, "none", TRUE)
    /\ UNCHANGED <<dirs, files, created, written, answers>>

\* main.js 32-46: one fetch; the response is ok, a non-success status, or
\* fetch itself throws.
Fetch(response) ==
    /\ ~FileExists(call.target)
    /\ answers' = Answered(call.url, response)
    /\ IF WritesFile(response, call.target)
       THEN /\ files' = [p \in DOMAIN files \cup {call.target} |->
                            IF p = call.target THEN call.url ELSE files[p]]
            /\ dirs' = dirs \cup Prefixes(Front(call.target))
            /\ created' = created \cup NewDirs(Front(call.target))
            /\ written' = written \cup {call.target}
       ELSE UNCHANGED <<dirs, files, created, written>>
    /\ Return(call.target \in DOMAIN files, response,
              WritesFile(response, call.target))

\* main.js 34-42: the response is ok and Bun.write stores it.
DownloadFetchesOk ==
    /\ status = "download"
    /\ Fetch("ok")

\* main.js 35-39: a non-success status is thrown as an Error and caught.
DownloadGetsHttpError ==
    /\ status = "download"
    /\ Fetch("http_error")

\* main.js 34, 43-46: fetch throws (a transport fault) and is caught.
DownloadFetchThrows ==
    /\ status = "download"
    /\ Fetch("fault")

------------------------------------------------------------------------------
(* A second run of the mirror over what the first one left *)

DownloadFailed(log) == \E i \in DOMAIN log : ~log[i].result

Fetches(log) == Cardinality({i \in DOMAIN log : log[i].fetched})

Rerun ==
    /\ status = "done"
    /\ run = "first"
    /\ run' = "rerun"
    /\ firstRun' = [files |-> files, dirs |-> dirs,
                    dirFailed |-> mkdirFailed # {},
                    downloadFailed |-> DownloadFailed(calls),
                    fetches |-> Fetches(calls)]
    /\ stack' = TopCall
    /\ status' = "loop"
    /\ calls' = <<>>
    /\ visited' = {}
    /\ mkdirFailed' = {}
    /\ UNCHANGED <<menu, dirs, files, call, created, written, answers>>

Next ==
    \/ Start
    \/ MkdirFails
    \/ VisitWithoutDownload
    \/ VisitCallsDownload
    \/ DownloadSkipsExisting
    \/ DownloadFetchesOk
    \/ DownloadGetsHttpError
    \/ DownloadFetchThrows

\* One run of the mirror into a fresh output root.
Spec == Init /\ [][Next]_vars

\* An output root that may hold a file already.
RerunInit == InitOver(MenusUpTo(MaxRerunNodes), TRUE)

RerunNext == Next \/ Rerun

\* Two runs of the mirror, one after the other, over an output root that may
\* hold a file already.
RerunSpec == RerunInit /\ [][RerunNext]_vars

------------------------------------------------------------------------------
(* Vocabulary of the properties *)

Kids(n) == {j \in Nodes : menu[j].parent = n}

LaterSiblings(n) == {j \in Nodes : menu[j].parent = menu[n].parent /\ j > n}

\* The node has a documentRef the pattern matches.
HasParsableRef(n) == menu[n].href # <<>> /\ HasPdfName(menu[n].href)

\* The direct children that carry the node's own documentRef.
SameRefKids(n) == {c \in Kids(n) : menu[c].href = menu[n].href}

\* A parsable documentRef that no direct child repeats.
Qualifies(n) == HasParsableRef(n) /\ SameRefKids(n) = {}

SourceUrl(n) == pdfUrl(menu[n].href)

\* The document path of the data model: inside the node's directory for a
\* node with children, beside it for a leaf.
DocumentPath(n) ==
    IF Kids(n) # {}
    THEN Append(ItemPathOf(n), sanitizedItemTitle(n) \o ".pdf")
    ELSE LeafPdf(ItemPathOf(n))

CallsBy(n) == {i \in DOMAIN calls : calls[i].node = n}

WalkDone == status = "done"

NoDirectoryFailure == mkdirFailed = {}

LastCall == calls[Len(calls)]

\* Every URL that was fetched answered the same way each time.
SameAnswers == \A u \in DOMAIN answers : Cardinality(answers[u]) = 1

\* The second run fetched nothing and left the file system as it found it.
SecondRunIsNoOp ==
    /\ Fetches(calls) = 0
    /\ files = firstRun.files
    /\ dirs = firstRun.dirs

------------------------------------------------------------------------------
(* Properties *)

\* C1 as stated: when every URL answers the same way in both runs (and no
\* directory creation fails in either), the second run ends having issued no
\* fetch and with the file system of the first.
C1_RerunAlwaysNoOp ==
    (/\ WalkDone /\ run = "rerun" /\ SameAnswers
     /\ ~firstRun.dirFailed /\ NoDirectoryFailure) => SecondRunIsNoOp

\* C1, amended: when in the first run no directory creation failed and every
\* downloadFile call returned true, the second run issues no fetch and the
\* file system stays what the first run left, at every point of the second
\* run.
C1_RerunAfterCleanRunIsNoOp ==
    (run = "rerun" /\ ~firstRun.dirFailed /\ ~firstRun.downloadFailed) =>
        SecondRunIsNoOp

C1_Witness ==
    /\ WalkDone /\ run = "rerun"
    /\ ~firstRun.dirFailed /\ ~firstRun.downloadFailed
    /\ firstRun.fetches >= 2
    /\ Len(calls) >= 2

\* C2: a downloadFile call that finds a file at targetPath, whatever its
\* content, returns true, fetches nothing and leaves the files as they are.
C2_SkipExisting ==
    [][(status = "download" /\ call.target \in DOMAIN files) =>
          /\ Len(calls') = Len(calls) + 1
          /\ calls'[Len(calls')].target = call.target
          /\ calls'[Len(calls')].result
          /\ ~calls'[Len(calls')].fetched
          /\ files' = files
          /\ answers' = answers]_vars

C2_Witness ==
    /\ calls # <<>>
    /\ LastCall.existed /\ LastCall.result /\ ~LastCall.fetched
    /\ files[LastCall.target] = ZeroBytes

\* C3 as stated: with no directory failure, a node N with a parsable
\* documentRef and a direct child carrying the same documentRef sees exactly
\* one downloadFile call for that documentRef among N and its children, made
\* for such a child at the child's document path.
C3_ExactlyOneCallInFamily ==
    (WalkDone /\ NoDirectoryFailure) =>
        \A n \in Nodes :
            (HasParsableRef(n) /\ SameRefKids(n) # {}) =>
                LET family == {n} \cup SameRefKids(n)
                    made == {i \in DOMAIN calls : calls[i].node \in family}
                IN  /\ Cardinality(made) = 1
                    /\ \A i \in made :
                          /\ calls[i].node \in SameRefKids(n)
                          /\ calls[i].target = DocumentPath(calls[i].node)

\* C3, amended: with no directory failure, downloadFile is never called for
\* such a node N itself, and each direct child C carrying N's documentRef
\* that has no direct child of its own carrying it gets exactly one call,
\* for N's source URL and at C's document path.
C3_DedupLeavesDownloadToChildren ==
    (WalkDone /\ NoDirectoryFailure) =>
        \A n \in Nodes :
            (HasParsableRef(n) /\ SameRefKids(n) # {}) =>
                /\ CallsBy(n) = {}
                /\ \A c \in SameRefKids(n) :
                      SameRefKids(c) = {} =>
                          /\ Cardinality(CallsBy(c)) = 1
                          /\ \A i \in CallsBy(c) :
                                /\ calls[i].url = SourceUrl(n)
                                /\ calls[i].target = DocumentPath(c)

C3_Witness ==
    /\ WalkDone /\ NoDirectoryFailure
    /\ \E n \in Nodes :
          /\ HasParsableRef(n)
          /\ \E c \in SameRefKids(n) : CallsBy(c) # {}

\* C4: when node A's download returned false, every sibling B after A still
\* had its directory step run and, once that step succeeded and B has a
\* parsable documentRef no child repeats, its own downloadFile call; the
\* children of A had their iterations run too.
C4_DownloadFailureIsolation ==
    WalkDone =>
        \A a \in Nodes :
            (\E i \in CallsBy(a) : ~calls[i].result) =>
                /\ \A b \in LaterSiblings(a) :
                      /\ b \in visited
                      /\ (b \notin mkdirFailed /\ Qualifies(b)) => CallsBy(b) # {}
                /\ Kids(a) \subseteq visited

C4_Witness ==
    /\ WalkDone
    /\ \E a \in Nodes :
          /\ \E i \in CallsBy(a) : ~calls[i].result
          /\ Kids(a) # {}
          /\ \E b \in LaterSiblings(a) : CallsBy(b) # {}

\* C5 as stated: after a walk with no directory failure every node, childless
\* ones included, has a directory at its itemPath.
C5_EveryNodeHasDirectory ==
    (WalkDone /\ NoDirectoryFailure) =>
        \A n \in Nodes : DirExists(ItemPathOf(n))

\* C5, amended: after a walk with no directory failure every node that has at
\* least one child has a directory at its itemPath.
C5_EveryBranchHasDirectory ==
    (WalkDone /\ NoDirectoryFailure) =>
        \A n \in Nodes : Kids(n) # {} => DirExists(ItemPathOf(n))

C5_Witness ==
    /\ WalkDone /\ NoDirectoryFailure
    /\ \E n \in Nodes :
          /\ Kids(n) # {}
          /\ menu[n].parent # 0
          /\ ItemPathOf(n) \in created

\* C6: every downloadFile call the walker makes for a node names
\* itemPath/sanitizedTitle.pdf when the node has a child and itemPath.pdf
\* when it has none, itemPath being the sanitised titles joined from the
\* output root.
C6_LeafVersusBranchNaming ==
    status = "download" => call.target = DocumentPath(call.node)

C6_Witness ==
    /\ \E i \in DOMAIN calls : Kids(calls[i].node) # {}
    /\ \E i \in DOMAIN calls :
          Kids(calls[i].node) = {} /\ menu[calls[i].node].parent # 0

\* C7: every directory the walker created and every file it wrote lies under
\* the output root.
C7_PathContainment ==
    \A p \in created \cup written : IsUnder(OutputRoot, p)

\* C8: a node whose directory step failed gets no downloadFile call, none of
\* its descendants is visited, and the walk goes on: it stands at a node not
\* visited yet until it is done, and then the siblings after the failed node
\* have been visited.
C8_DirectoryFailureSkipsSubtreeOnly ==
    mkdirFailed # {} =>
        /\ \A n \in mkdirFailed :
              /\ CallsBy(n) = {}
              /\ ~(status = "download" /\ call.node = n)
              /\ Descendants(n) \cap visited = {}
              /\ WalkDone => LaterSiblings(n) \subseteq visited
        /\ status = "loop" => (stack # <<>> /\ Cur \in Nodes \ visited)
        /\ status = "download" => call.node \in visited

C8_Witness ==
    /\ WalkDone
    /\ \E n \in mkdirFailed :
          /\ Qualifies(n)
          /\ Kids(n) # {}
          /\ \E b \in LaterSiblings(n) : CallsBy(b) # {}

\* C9: a downloadFile call returns to the walker; it returns true only with a
\* file at targetPath, and when no file was there and the fetch gave a
\* non-success status or threw, it returns false and there is still no file.
C9_DownloadResult ==
    [][status = "download" =>
          /\ status' \in {"loop", "done"}
          /\ Len(calls') = Len(calls) + 1
          /\ calls'[Len(calls')].result => call.target \in DOMAIN files'
          /\ (/\ call.target \notin DOMAIN files
              /\ calls'[Len(calls')].response \in {"http_error", "fault"}) =>
                 /\ ~calls'[Len(calls')].result
                 /\ call.target \notin DOMAIN files']_vars

C9_Witness ==
    /\ calls # <<>>
    /\ ~LastCall.existed /\ LastCall.response = "http_error"
    /\ ~LastCall.result
    /\ \E i \in DOMAIN calls : calls[i].response = "ok" /\ calls[i].result

\* C10: in a walk from an empty output root with no directory failure and no
\* failed fetch, every node with a parsable documentRef that no direct child
\* repeats has exactly one fetch of its own source URL.
C10_EveryQualifyingNodeFetchedOnce ==
    (/\ WalkDone /\ run = "first"
     /\ DOMAIN files \subseteq written
     /\ NoDirectoryFailure
     /\ \A i \in DOMAIN calls : calls[i].result) =>
        \A n \in Nodes :
            Qualifies(n) =>
                Cardinality({i \in CallsBy(n) :
                    calls[i].fetched /\ calls[i].url = SourceUrl(n)}) = 1

====
